---- MODULE Spec2Model ----
\* k8s-endpoint-updater: the update command's lifecycle (lookup, create, wait
\* for a termination signal, delete), the create variant of the updater and
\* the bridge provider's address increment.
EXTENDS Integers, Sequences, FiniteSets, TLC

\* ---------------------------------------------------------------- bounds

\* Attempts one backoff.Retry loop makes before NextBackOff reports Stop at
\* the latest (the library stops on elapsed time, so it may stop earlier).
MaxAttempts == 2

\* Termination signals the environment delivers during one run.
MaxSignals == 3

\* Facts (pod name and address) in the largest fact set.
MaxFacts == 2

\* ------------------------------------------------------ program constants

\* make(chan os.Signal, 2)
ListenerCap == 2

\* os.Exit(1) of Command.Execute, taken when execute returns an error.
ExecuteFailureCode == 1

\* os.Exit(1) of the cleanup goroutine, taken when the Delete retries fail.
CleanupFailureCode == 1

\* os.Exit(0) of the cleanup goroutine and of the main flow.
SuccessCode == 0

\* Exit status of a process ended by SIGTERM's default disposition, which
\* applies as long as signal.Notify has not been called.
KilledStatus == 128 + 15

\* ------------------------------------------------------------------ state

VARIABLES
    pc,          \* position of the main flow in Execute/execute
    cleanup,     \* position of the cleanup goroutine
    registered,  \* signal.Notify(listener, ...) has been called
    listener,    \* number of signals buffered in the listener channel
    signals,     \* number of signals delivered so far
    sigAt,       \* positions of the main flow at which signals were delivered
    s1,          \* the signal received by s1 := <-listener
    attempts,    \* failed attempts of the retry loop in progress
    calls,       \* provider and updater calls made so far, with their results
    podInfos,    \* execute's podInfos
    exitCode,    \* process exit status, -1 while running
    exitBy,      \* which statement ended the process
    failedPhase, \* the retry loop or step whose failure ended the process
    bridgeName,  \* f.Provider.Bridge.Name, the --provider.bridge.name flag
    providerKind \* f.Provider.Kind, the --provider.kind flag

lifeVars == <<pc, cleanup, registered, listener, signals, sigAt, s1, attempts,
              calls, podInfos, exitCode, exitBy, failedPhase, bridgeName,
              providerKind>>

VARIABLES
    ip,          \* the net.IP handed to incrIPV4, a sequence of bytes
    next,        \* the net.IP incrIPV4 returned
    ipc          \* whether incrIPV4 has been called

incrVars == <<ip, next, ipc>>

VARIABLES
    svc,         \* the store's service objects of the name, <<>> or one object
    eps,         \* the store's endpoints objects of the name, <<>> or one object
    facts,       \* Update's podInfos argument
    upc,         \* position inside Update
    ui,          \* index of the pod info the loop of Update is at
    us,          \* the service fetched in this iteration
    uerr,        \* the error Update returned
    ucalls,      \* the store calls of this run of Update, with their errors
    faults,      \* store calls of this run the store failed to serve
    run,         \* which of the two consecutive runs of Update this is
    first        \* the endpoints and the result at the end of the first run

updVars == <<svc, eps, facts, upc, ui, us, uerr, ucalls, faults, run, first>>

VARIABLES
    netInterface, \* the host's interface of the bridge name: <<>> or one interface
    lookupIP,     \* the net.IP the bridge provider's Lookup returned, <<>> for nil
    lookupErr,    \* the error the bridge provider's Lookup returned
    bpc           \* whether the bridge provider's Lookup has been called

bridgeVars == <<netInterface, lookupIP, lookupErr, bpc>>

VARIABLES
    pstore,      \* the store's endpoints objects of the namespace
    listed,      \* what Endpoints(namespace).List returned
    endpoints,   \* Update's endpoints.Items, rewritten in place
    pinfos,      \* Update's podInfos argument
    ppc,         \* position inside Update
    pidx,        \* index of the item the outer loop of Update is at
    found,       \* Update's found
    perr,        \* the error Update returned
    pwrites      \* the objects passed to Endpoints(namespace).Update, in order

patchVars == <<pstore, listed, endpoints, pinfos, ppc, pidx, found, perr, pwrites>>

\* The state of a run of Update without the stored endpoints.
updRest == <<svc, facts, upc, ui, us, uerr, ucalls, faults, run, first>>

vars == <<lifeVars, incrVars, updVars, bridgeVars, patchVars>>

\* Results of one call to the provider or the updater: success, an error of a
\* transient kind (store or network unavailable) or of a permanent kind
\* (invalid configuration, malformed address).
Outcomes == {"ok", "transient", "permanent"}

\* provider.PodInfo values: the i-th pod (names are numbered) and its address.
PodInfo(i) == [name |-> i, ip |-> <<10, 0, 0, i>>]

\* Fact sets a successful Lookup can return: the first n pods, n = 0 included.
FactSets == {[i \in 1..n |-> PodInfo(i)] : n \in 0..MaxFacts}

Running == pc # "exited"

\* Values of the --provider.kind flag: the three provider variants ("env" is
\* the flag's default) and a value that names none.
ProviderKinds == {"env", "bridge", "etcd", "none"}

\* The provider variant execute constructs for a provider kind: it builds the
\* bridge provider whatever the flag says.
ProviderFor(kind) == "bridge"

\* ------------------------------------------------------------ constructors

\* bridge.New without the check of the bridge name.
BridgeNewAnyName(configLogger, configBridgeName) ==
    IF configLogger = "nil" THEN "invalidConfig"
    ELSE "ok"

\* bridge.New: the logger and the bridge name must be set.
BridgeNew(configLogger, configBridgeName) ==
    IF configLogger = "nil" THEN "invalidConfig"
    ELSE IF configBridgeName = "" THEN "invalidConfig"
    ELSE "ok"

\* updater.New: the client and the logger must be set.
UpdaterNew(configClient, configLogger) ==
    IF configClient = "nil" THEN "invalidConfig"
    ELSE IF configLogger = "nil" THEN "invalidConfig"
    ELSE "ok"

\* ------------------------------------------------------------ process exit

\* execute logging the error and going on to the signal wait.
ExecuteFailsLogged(phase) ==
    /\ pc' = "notify"
    /\ failedPhase' = phase
    /\ UNCHANGED <<exitCode, exitBy>>

\* execute returned an error: Execute logs it and calls os.Exit(1).
ExecuteFails(phase) ==
    /\ pc' = "exited"
    /\ exitCode' = ExecuteFailureCode
    /\ exitBy' = "execute"
    /\ failedPhase' = phase

\* backoff.Retry after a failed attempt: it asks NextBackOff and retries unless
\* that says Stop. The error itself is not inspected.
RetryAgain(err, stop) == ~stop

\* Whether NextBackOff may say Stop after n failed attempts.
BackoffStops(n) == IF n >= MaxAttempts THEN {TRUE} ELSE {TRUE, FALSE}

\* -------------------------------------------------------- initial states


InitLife ==
    /\ pc = "validate"
    /\ cleanup = "unspawned"
    /\ registered = FALSE
    /\ listener = 0
    /\ signals = 0
    /\ sigAt = {}
    /\ s1 = "none"
    /\ attempts = 0
    /\ calls = <<>>
    /\ podInfos = <<>>
    /\ exitCode = -1
    /\ exitBy = "none"
    /\ failedPhase = "none"
    /\ bridgeName \in {"", "br0"}
    /\ providerKind \in ProviderKinds

IdleIncr == ip = <<>> /\ next = <<>> /\ ipc = "idle"

\* A nil error.
NilErr == [reason |-> "nil", msg |-> <<>>]

IdleUpd ==
    /\ svc = <<>>
    /\ eps = <<>>
    /\ facts = <<>>
    /\ upc = "idle"
    /\ ui = 0
    /\ us = <<>>
    /\ uerr = NilErr
    /\ ucalls = <<>>
    /\ faults = 0
    /\ run = 0
    /\ first = <<>>

IdleLife == InitLife /\ bridgeName = "br0" /\ providerKind = "bridge"

IdleBridge ==
    /\ netInterface = <<>>
    /\ lookupIP = <<>>
    /\ lookupErr = "nil"
    /\ bpc = "idle"

IdlePatch ==
    /\ pstore = <<>>
    /\ listed = <<>>
    /\ endpoints = <<>>
    /\ pinfos = <<>>
    /\ ppc = "idle"
    /\ pidx = 0
    /\ found = FALSE
    /\ perr = NilErr
    /\ pwrites = <<>>

\* ------------------------------------------------- bridge provider: incrIPV4

\* Octets the checked addresses are built from: both ends of the byte range
\* and their neighbours, so that every carry chain occurs.
OctetSamples == {0, 1, 254, 255}

DigitChars == <<"0", "1", "2", "3", "4", "5", "6", "7", "8", "9">>

\* Decimal text of a byte, as net.IP.String writes each octet.
Itoa(n) ==
    IF n < 10 THEN <<DigitChars[n + 1]>>
    ELSE IF n < 100 THEN <<DigitChars[(n \div 10) + 1], DigitChars[(n % 10) + 1]>>
    ELSE <<DigitChars[(n \div 100) + 1], DigitChars[((n \div 10) % 10) + 1],
           DigitChars[(n % 10) + 1]>>

\* The first twelve bytes of the 16-byte form of an IPv4 address.
V4InV6Prefix == <<0, 0, 0, 0, 0, 0, 0, 0, 0, 0, 255, 255>>

\* net.IP.To4: the 4-byte form of an IPv4 address, <<>> (nil) for anything else.
To4(a) ==
    IF Len(a) = 4 THEN a
    ELSE IF Len(a) = 16 /\ SubSeq(a, 1, 12) = V4InV6Prefix THEN SubSeq(a, 13, 16)
    ELSE <<>>

\* net.IP.String of an IPv4 address in either form: dotted decimal text.
IPString(a) ==
    LET p4 == To4(a)
    IN IF Len(p4) # 4 THEN <<"?">>
       ELSE Itoa(p4[1]) \o <<".">> \o Itoa(p4[2]) \o <<".">> \o Itoa(p4[3])
            \o <<".">> \o Itoa(p4[4])

DigitValue(ch) == CHOOSE d \in 0..9 : DigitChars[d + 1] = ch

IsDigit(ch) == \E d \in 0..9 : DigitChars[d + 1] = ch

\* Length of the run of digits at the head of the text.
RECURSIVE DigitRun(_)
DigitRun(text) ==
    IF text = <<>> \/ ~IsDigit(Head(text)) THEN 0 ELSE 1 + DigitRun(Tail(text))

\* Value of a run of digits, -1 when it is empty or exceeds a byte.
RECURSIVE AtoiFrom(_, _)
AtoiFrom(digits, acc) ==
    IF digits = <<>> THEN acc
    ELSE LET v == acc * 10 + DigitValue(Head(digits))
         IN IF v > 255 THEN -1 ELSE AtoiFrom(Tail(digits), v)

Atoi(digits) == IF digits = <<>> THEN -1 ELSE AtoiFrom(digits, 0)

\* The decimal fields of a dotted text, <<>> when the text is malformed.
RECURSIVE ParseFields(_, _)
ParseFields(text, fields) ==
    LET n == DigitRun(text)
        v == Atoi(SubSeq(text, 1, n))
        rest == SubSeq(text, n + 1, Len(text))
    IN IF v < 0 THEN <<>>
       ELSE IF rest = <<>> THEN Append(fields, v)
       ELSE IF Head(rest) # "." THEN <<>>
       ELSE ParseFields(Tail(rest), Append(fields, v))

\* net.ParseIP of a dotted decimal text: the 16-byte form of the address,
\* <<>> (nil) when the text is not four decimal fields.
ParseIP(text) ==
    LET fields == ParseFields(text, <<>>)
    IN IF Len(fields) # 4 THEN <<>> ELSE V4InV6Prefix \o fields

\* The loop of incrIPV4 from index j (1-based) leftwards: c[j]++ in a byte,
\* stopping at the first byte that did not wrap to 0.
RECURSIVE IncrFrom(_, _)
IncrFrom(c, j) ==
    IF j < 1 THEN c
    ELSE LET d == [c EXCEPT ![j] = (c[j] + 1) % 256]
         IN IF d[j] > 0 THEN d ELSE IncrFrom(d, j - 1)

incrIPV4(a) ==
    LET c == ParseIP(IPString(a))
    IN IncrFrom(c, Len(c))

\* The addresses incrIPV4 is checked on, in the 4-byte form ipv4FromInterface
\* returns and in the 16-byte form.
InitIncr ==
    /\ \E o1 \in OctetSamples, o2 \in OctetSamples, o3 \in OctetSamples,
          o4 \in OctetSamples, wide \in BOOLEAN :
         ip = IF wide THEN V4InV6Prefix \o <<o1, o2, o3, o4>> ELSE <<o1, o2, o3, o4>>
    /\ next = <<>>
    /\ ipc = "call"

\* next := incrIPV4(ip)
CallIncr ==
    /\ ipc = "call"
    /\ next' = incrIPV4(ip)
    /\ ipc' = "returned"
    /\ UNCHANGED ip

NextIncr == CallIncr /\ UNCHANGED <<lifeVars, updVars, bridgeVars, patchVars>>

InitIncrSpec == IdleLife /\ InitIncr /\ IdleUpd /\ IdleBridge /\ IdlePatch

SpecIncr == InitIncrSpec /\ [][NextIncr]_vars

\* The IPv4 address whose 32-bit value is one more than that of a, modulo
\* 2^32, computed on the two 16-bit halves of the value.
Succ32(a) ==
    LET p4 == To4(a)
        hi == p4[1] * 256 + p4[2]
        lo == p4[3] * 256 + p4[4]
        lo2 == (lo + 1) % 65536
        hi2 == IF lo2 = 0 THEN (hi + 1) % 65536 ELSE hi
    IN <<hi2 \div 256, hi2 % 256, lo2 \div 256, lo2 % 256>>

\* C7: incrIPV4 returns the IPv4 address whose 32-bit value is the input's
\* plus one modulo 2^32, 255.255.255.255 giving 0.0.0.0.
C7_IncrIsSuccessor == ipc = "returned" => To4(next) = Succ32(ip)

\* ------------------------------------------------ bridge provider: Lookup

\* Longest address list of an interface that is checked.
MaxAddrs == 2

\* Addresses an interface can report: a present IPv4 address in its 4-byte and
\* in its 16-byte form, an IPv6 address, an entry without an address, and an
\* address of a type that is neither *net.IPNet nor *net.IPAddr.
AddrIPs ==
    { <<>>,
      <<172, 17, 0, 1>>,
      V4InV6Prefix \o <<10, 0, 0, 255>>,
      <<254, 128, 0, 0, 0, 0, 0, 0, 0, 0, 0, 0, 0, 0, 0, 1>> }

AddrEntries ==
    {[kind |-> k, ip |-> a] : k \in {"IPNet", "IPAddr"}, a \in AddrIPs}
    \cup {[kind |-> "other", ip |-> <<192, 168, 0, 1>>]}

AddrLists == UNION {[1..n -> AddrEntries] : n \in 0..MaxAddrs}

\* The type switch of ipv4FromInterface: the IP of an IPNet or an IPAddr, nil
\* for any other address.
EntryIP(addr) == IF addr.kind \in {"IPNet", "IPAddr"} THEN addr.ip ELSE <<>>

\* A scan that takes every address for an IPv4 address.
IsIPv4Any(a) == TRUE

\* ip.To4() != nil
IsIPv4(a) == To4(a) # <<>>

\* The loop of ipv4FromInterface over the addresses.
RECURSIVE ipv4FromAddrs(_)
ipv4FromAddrs(addrs) ==
    IF addrs = <<>> THEN [ip |-> <<>>, err |-> "IPV4 not found"]
    ELSE LET a == EntryIP(Head(addrs))
         IN IF a = <<>> THEN ipv4FromAddrs(Tail(addrs))
            ELSE IF ~IsIPv4(a) THEN ipv4FromAddrs(Tail(addrs))
            ELSE [ip |-> To4(a), err |-> "nil"]

ipv4FromInterface(ni) ==
    IF ni.addrsErr THEN [ip |-> <<>>, err |-> "addrs failed"]
    ELSE ipv4FromAddrs(ni.addrs)

\* Provider.Lookup on the host's interfaces.
Lookup(interface) ==
    IF interface = <<>> THEN [ip |-> <<>>, err |-> "no such network interface"]
    ELSE LET r == ipv4FromInterface(interface[1])
         IN IF r.err # "nil" THEN [ip |-> <<>>, err |-> r.err]
            ELSE [ip |-> incrIPV4(r.ip), err |-> "nil"]

\* The host before Lookup: the interface may be missing, reading its addresses
\* may fail, and it has any of the address lists.
InitBridge ==
    /\ netInterface \in
         {<<>>} \cup {<<[addrsErr |-> f, addrs |-> l]>> : f \in BOOLEAN, l \in AddrLists}
    /\ lookupIP = <<>>
    /\ lookupErr = "nil"
    /\ bpc = "call"

\* next, err := p.Lookup()
CallLookup ==
    /\ bpc = "call"
    /\ LET r == Lookup(netInterface)
       IN /\ lookupIP' = r.ip
          /\ lookupErr' = r.err
    /\ bpc' = "returned"
    /\ UNCHANGED netInterface

NextBridge == CallLookup /\ UNCHANGED <<lifeVars, incrVars, updVars, patchVars>>

InitBridgeSpec == IdleLife /\ IdleIncr /\ IdleUpd /\ InitBridge /\ IdlePatch

SpecBridge == InitBridgeSpec /\ [][NextBridge]_vars

\* An entry of the address list that is present and is an IPv4 address: four
\* bytes, or sixteen bytes with the IPv4-in-IPv6 prefix.
IsV4Entry(addr) ==
    /\ addr.kind \in {"IPNet", "IPAddr"}
    /\ \/ Len(addr.ip) = 4
       \/ Len(addr.ip) = 16 /\ SubSeq(addr.ip, 1, 12) = V4InV6Prefix

\* The positions of the IPv4 addresses in the interface's address list.
V4Positions ==
    IF netInterface = <<>> \/ netInterface[1].addrsErr THEN {}
    ELSE {i \in DOMAIN netInterface[1].addrs : IsV4Entry(netInterface[1].addrs[i])}

\* The least element of a non-empty set of positions.
Least(S) == CHOOSE i \in S : \A j \in S : i <= j

\* C18: Lookup returns incrIPV4 of the first IPv4 address in the order of the
\* interface's address list, whatever absent or non-IPv4 entries come before
\* it; it returns an error and no address when the interface does not exist or
\* has no IPv4 address (or its addresses cannot be read).
C18_FirstIPv4Successor ==
    bpc = "returned" =>
        IF V4Positions = {}
        THEN lookupErr # "nil" /\ lookupIP = <<>>
        ELSE /\ lookupErr = "nil"
             /\ lookupIP = incrIPV4(To4(netInterface[1].addrs[Least(V4Positions)].ip))

\* Lookup returned the successor of an IPv4 address that is not the first
\* entry of the list.
C18_Witness ==
    /\ bpc = "returned"
    /\ lookupErr = "nil"
    /\ V4Positions # {}
    /\ Least(V4Positions) > 1

\* ------------------------------------------- updater: Update, create variant

\* Errors of the record store: the API's reason and the words of its message.
ErrAlreadyExists ==
    [reason |-> "AlreadyExists", msg |-> <<"endpoints", "guest", "already", "exists">>]

ErrNotFound ==
    [reason |-> "NotFound", msg |-> <<"services", "guest", "not", "found">>]

ErrUnavailable ==
    [reason |-> "ServiceUnavailable",
     msg |-> <<"the", "server", "is", "currently", "unable", "to", "handle", "the", "request">>]

ErrForbidden ==
    [reason |-> "Forbidden", msg |-> <<"endpoints", "guest", "is", "forbidden">>]

\* Errors with which the store fails a call it cannot serve.
FaultErrors == {ErrUnavailable, ErrForbidden}

\* strings.Contains on texts given word by word.
Contains(text, sub) ==
    \E i \in 1..(Len(text) - Len(sub) + 1) : SubSeq(text, i, i + Len(sub) - 1) = sub

\* Update with the already-exists test removed: every Create error is returned.
IsAlreadyExistsNever(err) == FALSE

\* Update with the test widened: every Create error is skipped.
IsAlreadyExistsAny(err) == TRUE

\* strings.Contains(err.Error(), "already exists")
IsAlreadyExists(err) == Contains(err.msg, <<"already", "exists">>)

\* Declared ports of the service: v1.ServicePort values.
PortLists ==
    { <<>>,
      <<[name |-> "http", protocol |-> "TCP", port |-> 80, targetPort |-> 8080]>>,
      <<[name |-> "https", protocol |-> "TCP", port |-> 443, targetPort |-> 8443],
        [name |-> "http", protocol |-> "TCP", port |-> 80, targetPort |-> 8080]>>,
      <<[name |-> "dns", protocol |-> "UDP", port |-> 53, targetPort |-> 53]>> }

\* serviceToPorts: an apiv1.EndpointPort per declared port, with the name and
\* the port number set and the protocol left at its zero value.
RECURSIVE serviceToPortsFrom(_, _)
serviceToPortsFrom(specPorts, ports) ==
    IF specPorts = <<>> THEN ports
    ELSE LET p == Head(specPorts)
         IN serviceToPortsFrom(Tail(specPorts),
                               Append(ports, [name |-> p.name, port |-> p.port,
                                              protocol |-> ""]))

serviceToPorts(s) == serviceToPortsFrom(s.ports, <<>>)

\* The apiv1.Endpoints object Update builds for one pod info.
NewEndpoint(service, pi, s) ==
    [name |-> service,
     subsets |-> << [addresses |-> << [ip |-> IPString(pi.ip)] >>,
                    ports |-> serviceToPorts(s)] >>]

\* Services(namespace).Get(service, ...): the object and a nil error, or an error.
StoreGet(fault) ==
    IF fault # NilErr THEN [obj |-> <<>>, err |-> fault]
    ELSE IF svc = <<>> THEN [obj |-> <<>>, err |-> ErrNotFound]
    ELSE [obj |-> svc[1], err |-> NilErr]

\* The object as the store keeps it: a port without a protocol is a TCP port.
Defaulted(endpoint) ==
    [endpoint EXCEPT
       !.subsets = [j \in DOMAIN endpoint.subsets |->
                      [endpoint.subsets[j] EXCEPT
                         !.ports = [k \in DOMAIN endpoint.subsets[j].ports |->
                                      IF endpoint.subsets[j].ports[k].protocol = ""
                                      THEN [endpoint.subsets[j].ports[k] EXCEPT !.protocol = "TCP"]
                                      ELSE endpoint.subsets[j].ports[k]]]]]

\* Endpoints(namespace).Create(endpoint) on the stored endpoints e: the store
\* after the call and the error.
StoreCreateIn(e, endpoint, fault) ==
    IF fault # NilErr THEN [eps |-> e, err |-> fault]
    ELSE IF e # <<>> THEN [eps |-> e, err |-> ErrAlreadyExists]
    ELSE [eps |-> <<Defaulted(endpoint)>>, err |-> NilErr]

\* Endpoints(namespace).Create(endpoint) on the store as it is.
StoreCreate(endpoint, fault) == StoreCreateIn(eps, endpoint, fault)

\* The store before a call of Update: the service may be missing, and the
\* endpoints object may be left over from an earlier run or from another writer.
InitUpdater ==
    /\ svc \in {<<>>} \cup {<<[name |-> "guest", ports |-> pl]>> : pl \in PortLists}
    /\ eps \in {<<>>,
                <<[name |-> "guest",
                   subsets |-> <<[addresses |-> <<[ip |-> IPString(<<10, 0, 0, 9>>)]>>,
                                 ports |-> <<>>]>>]>>}
    /\ facts \in FactSets
    /\ upc = "loop"
    /\ ui = 1
    /\ us = <<>>
    /\ uerr = NilErr
    /\ ucalls = <<>>
    /\ faults = 0
    /\ run = 1
    /\ first = <<>>

\* for _, pi := range podInfos: s, err := Services(namespace).Get(service, ...)
UpdateGet ==
    /\ upc = "loop"
    /\ ui <= Len(facts)
    /\ \E fault \in FaultErrors \cup {NilErr} :
         LET r == StoreGet(fault)
         IN /\ ucalls' = Append(ucalls, [call |-> "Get", err |-> r.err])
            /\ faults' = IF fault # NilErr THEN faults + 1 ELSE faults
            /\ IF r.err # NilErr
               THEN /\ uerr' = r.err
                    /\ upc' = "returned"
                    /\ UNCHANGED us
               ELSE /\ us' = r.obj
                    /\ upc' = "create"
                    /\ UNCHANGED uerr
    /\ UNCHANGED <<svc, eps, facts, ui, run, first>>

\* The rest of the loop body: build the endpoints object, Create it, skip an
\* error that says "already exists", return any other error.
UpdateCreate ==
    /\ upc = "create"
    /\ \E fault \in FaultErrors \cup {NilErr} :
         LET r == StoreCreate(NewEndpoint("guest", facts[ui], us), fault)
         IN /\ ucalls' = Append(ucalls, [call |-> "Create", err |-> r.err])
            /\ faults' = IF fault # NilErr THEN faults + 1 ELSE faults
            /\ eps' = r.eps
            /\ IF r.err # NilErr /\ ~IsAlreadyExists(r.err)
               THEN /\ uerr' = r.err
                    /\ upc' = "returned"
                    /\ UNCHANGED ui
               ELSE /\ ui' = ui + 1
                    /\ upc' = "loop"
                    /\ UNCHANGED uerr
    /\ UNCHANGED <<svc, facts, us, run, first>>

\* return nil after the loop
UpdateReturn ==
    /\ upc = "loop"
    /\ ui > Len(facts)
    /\ uerr' = NilErr
    /\ upc' = "returned"
    /\ UNCHANGED <<svc, eps, facts, ui, us, ucalls, faults, run, first>>

\* The caller runs Update again with the same arguments (as the retry loop
\* around it does); the outcome of the first run is kept for comparison.
UpdateAgain ==
    /\ upc = "returned"
    /\ run = 1
    /\ first' = <<[eps |-> eps, err |-> uerr]>>
    /\ run' = 2
    /\ upc' = "loop"
    /\ ui' = 1
    /\ us' = <<>>
    /\ uerr' = NilErr
    /\ ucalls' = <<>>
    /\ faults' = 0
    /\ UNCHANGED <<svc, eps, facts>>

NextUpdater ==
    \/ UpdateGet /\ UNCHANGED <<lifeVars, incrVars, bridgeVars, patchVars>>
    \/ UpdateCreate /\ UNCHANGED <<lifeVars, incrVars, bridgeVars, patchVars>>
    \/ UpdateReturn /\ UNCHANGED <<lifeVars, incrVars, bridgeVars, patchVars>>
    \/ UpdateAgain /\ UNCHANGED <<lifeVars, incrVars, bridgeVars, patchVars>>

InitUpdaterSpec == IdleLife /\ IdleIncr /\ InitUpdater /\ IdleBridge /\ IdlePatch

SpecUpdater == InitUpdaterSpec /\ [][NextUpdater]_vars

\* The addresses of an endpoints object, over all its subsets, in order.
RECURSIVE AddressesOf(_)
AddressesOf(subsets) ==
    IF subsets = <<>> THEN <<>>
    ELSE [i \in DOMAIN Head(subsets).addresses |-> Head(subsets).addresses[i].ip]
         \o AddressesOf(Tail(subsets))

\* The address set of the stored record, empty when there is no record.
AddressSet == IF eps = <<>> THEN <<>> ELSE AddressesOf(eps[1].subsets)

\* How often the address a occurs in a list of addresses.
Occurrences(list, a) == Cardinality({i \in DOMAIN list : list[i] = a})

\* C8: after Update returned success the record's address set holds exactly
\* one entry for each supplied fact.
C8_OneEntryPerFact ==
    (upc = "returned" /\ uerr = NilErr) =>
        \A i \in DOMAIN facts : Occurrences(AddressSet, IPString(facts[i].ip)) = 1

C10_OnlyConflictSwallowed ==
    /\ \A i \in DOMAIN ucalls :
         (ucalls[i].err # NilErr
            /\ ~(ucalls[i].call = "Create" /\ ucalls[i].err.reason = "AlreadyExists"))
         => /\ i = Len(ucalls)
            /\ upc = "returned"
            /\ uerr = ucalls[i].err
    /\ (upc = "returned" /\ uerr # NilErr) =>
         /\ ucalls # <<>>
         /\ uerr = ucalls[Len(ucalls)].err
         /\ uerr.reason # "AlreadyExists"

\* C10 witness: a run passed over an already-exists conflict and then returned
\* another error.
C10_Witness ==
    /\ upc = "returned"
    /\ uerr # NilErr
    /\ \E i \in DOMAIN ucalls :
         ucalls[i].call = "Create" /\ ucalls[i].err.reason = "AlreadyExists"

\* ------------------------------------- updater: Update, patch-in-place variant

\* Longest list of endpoints objects in the namespace that is checked.
MaxItems == 2

\* executionFailedError
ErrExecutionFailed == [reason |-> "executionFailed", msg |-> <<"execution", "failed">>]

\* The IP an address entry has before Update.
OldIP == IPString(<<10, 0, 0, 9>>)

\* An address entry of a subset: its IP and its TargetRef, <<>> for a nil
\* TargetRef. The name 0 is the name of no pod info.
Address(targets) == [ip |-> OldIP, targetRef |-> targets]

Target(name) == <<[kind |-> "Pod", name |-> name]>>

\* Address lists of a subset: none, matching and not matching names in either
\* order, and an entry without a TargetRef.
AddressLists ==
    { <<>>,
      <<Address(Target(1))>>,
      <<Address(Target(0))>>,
      <<Address(Target(1)), Address(Target(0))>>,
      <<Address(Target(0)), Address(Target(2))>>,
      <<Address(<<>>)>> }

\* Subsets of an endpoints object.
SubsetLists ==
    {<<>>}
    \cup {<<[addresses |-> l, ports |-> <<[name |-> "http", port |-> 80, protocol |-> "TCP"]>>]>> :
            l \in AddressLists}
    \cup {<<[addresses |-> <<Address(Target(0))>>, ports |-> <<>>],
            [addresses |-> <<Address(Target(2)), Address(Target(1))>>, ports |-> <<>>]>>}

\* The endpoints objects of the namespace, named by their position.
ItemLists ==
    UNION {{[i \in 1..n |-> [name |-> i, subsets |-> f[i]]] : f \in [1..n -> SubsetLists]} :
             n \in 0..MaxItems}

\* podInfos arguments: the fact sets, and one with a name given twice.
PodInfoLists == FactSets \cup {<<PodInfo(1), [name |-> 1, ip |-> <<10, 0, 0, 7>>]>>}

\* A lookup that takes the first pod info whatever its name.
podInfoByNameAny(infos, name) ==
    IF infos = <<>> THEN [pi |-> <<>>, err |-> ErrExecutionFailed]
    ELSE [pi |-> <<infos[1]>>, err |-> NilErr]

\* podInfoByName: the first pod info of the name, or the execution-failed error.
podInfoByName(infos, name) ==
    LET hits == {i \in DOMAIN infos : infos[i].name = name}
    IN IF hits = {} THEN [pi |-> <<>>, err |-> ErrExecutionFailed]
       ELSE [pi |-> <<infos[CHOOSE i \in hits : \A j \in hits : i <= j]>>, err |-> NilErr]

\* for k, a := range s.Addresses, from entry k on: a nil TargetRef panics, a
\* name without pod info is skipped, any other entry gets the pod info's IP and
\* sets found.
RECURSIVE ScanAddresses(_, _, _, _)
ScanAddresses(addresses, k, infos, fnd) ==
    IF k > Len(addresses) THEN [addresses |-> addresses, found |-> fnd, panic |-> FALSE]
    ELSE IF addresses[k].targetRef = <<>>
    THEN [addresses |-> addresses, found |-> fnd, panic |-> TRUE]
    ELSE LET r == podInfoByName(infos, addresses[k].targetRef[1].name)
         IN IF r.err # NilErr THEN ScanAddresses(addresses, k + 1, infos, fnd)
            ELSE ScanAddresses([addresses EXCEPT ![k].ip = IPString(r.pi[1].ip)],
                               k + 1, infos, TRUE)

\* for j, s := range e.Subsets, from subset j on.
RECURSIVE ScanSubsets(_, _, _, _)
ScanSubsets(subsets, j, infos, fnd) ==
    IF j > Len(subsets) THEN [subsets |-> subsets, found |-> fnd, panic |-> FALSE]
    ELSE LET r == ScanAddresses(subsets[j].addresses, 1, infos, fnd)
             done == [subsets EXCEPT ![j].addresses = r.addresses]
         IN IF r.panic THEN [subsets |-> done, found |-> r.found, panic |-> TRUE]
            ELSE ScanSubsets(done, j + 1, infos, r.found)

\* The namespace and the argument before a call of Update.
InitPatch ==
    /\ pstore \in ItemLists
    /\ pinfos \in PodInfoLists
    /\ listed = <<>>
    /\ endpoints = <<>>
    /\ ppc = "list"
    /\ pidx = 0
    /\ found = FALSE
    /\ perr = NilErr
    /\ pwrites = <<>>

\* endpoints, err := Endpoints(namespace).List(...); var found bool
PatchList ==
    /\ ppc = "list"
    /\ \E fault \in FaultErrors \cup {NilErr} :
         IF fault # NilErr
         THEN /\ perr' = fault
              /\ ppc' = "returned"
              /\ UNCHANGED <<listed, endpoints, pidx>>
         ELSE /\ listed' = pstore
              /\ endpoints' = pstore
              /\ pidx' = 1
              /\ ppc' = "items"
              /\ UNCHANGED perr
    /\ UNCHANGED <<pstore, pinfos, found, pwrites>>

\* One iteration of for i, e := range endpoints.Items: rewrite the addresses,
\* return the execution-failed error when found is not set, else pass the
\* item to Endpoints(namespace).Update and return its error if it has one.
PatchItem ==
    /\ ppc = "items"
    /\ pidx <= Len(endpoints)
    /\ LET r == ScanSubsets(endpoints[pidx].subsets, 1, pinfos, found)
           item == [endpoints[pidx] EXCEPT !.subsets = r.subsets]
       IN /\ endpoints' = [endpoints EXCEPT ![pidx] = item]
          /\ found' = r.found
          /\ IF r.panic
             THEN /\ ppc' = "panicked"
                  /\ UNCHANGED <<pstore, pidx, perr, pwrites>>
             ELSE IF ~r.found
             THEN /\ perr' = ErrExecutionFailed
                  /\ ppc' = "returned"
                  /\ UNCHANGED <<pstore, pidx, pwrites>>
             ELSE \E fault \in FaultErrors \cup {NilErr} :
                    /\ pwrites' = Append(pwrites, [idx |-> pidx, obj |-> item, err |-> fault])
                    /\ IF fault # NilErr
                       THEN /\ perr' = fault
                            /\ ppc' = "returned"
                            /\ UNCHANGED <<pstore, pidx>>
                       ELSE /\ pstore' = [pstore EXCEPT ![pidx] = item]
                            /\ pidx' = pidx + 1
                            /\ UNCHANGED <<ppc, perr>>
    /\ UNCHANGED <<listed, pinfos>>

\* return nil after the loop
PatchReturn ==
    /\ ppc = "items"
    /\ pidx > Len(endpoints)
    /\ perr' = NilErr
    /\ ppc' = "returned"
    /\ UNCHANGED <<pstore, listed, endpoints, pinfos, pidx, found, pwrites>>

NextPatch ==
    \/ PatchList /\ UNCHANGED <<lifeVars, incrVars, updVars, bridgeVars>>
    \/ PatchItem /\ UNCHANGED <<lifeVars, incrVars, updVars, bridgeVars>>
    \/ PatchReturn /\ UNCHANGED <<lifeVars, incrVars, updVars, bridgeVars>>

InitPatchSpec == IdleLife /\ IdleIncr /\ IdleUpd /\ IdleBridge /\ InitPatch

SpecPatch == InitPatchSpec /\ [][NextPatch]_vars

\* The names of the supplied pod infos.
SuppliedNames == {pinfos[i].name : i \in DOMAIN pinfos}

\* The IPs, as texts, of the supplied pod infos of a name.
SuppliedIPs(name) == {IPString(pinfos[i].ip) : i \in {j \in DOMAIN pinfos : pinfos[j].name = name}}

\* An address entry after Update against the entry as listed: the TargetRef is
\* kept; the IP is that of a supplied pod info of the target's name when there
\* is one, and is kept otherwise.
AddressPatched(new, old) ==
    /\ new.targetRef = old.targetRef
    /\ IF old.targetRef # <<>> /\ old.targetRef[1].name \in SuppliedNames
       THEN new.ip \in SuppliedIPs(old.targetRef[1].name)
       ELSE new.ip = old.ip

\* An endpoints object after Update against the object as listed: nothing but
\* the IPs of address entries differs.
ObjectPatched(new, old) ==
    /\ new.name = old.name
    /\ Len(new.subsets) = Len(old.subsets)
    /\ \A j \in DOMAIN old.subsets :
          /\ new.subsets[j].ports = old.subsets[j].ports
          /\ Len(new.subsets[j].addresses) = Len(old.subsets[j].addresses)
          /\ \A k \in DOMAIN old.subsets[j].addresses :
                AddressPatched(new.subsets[j].addresses[k], old.subsets[j].addresses[k])

\* C20: every object Update writes back is the listed object with the IP of
\* each address entry whose target name is the name of a supplied pod info set
\* to that pod info's IP and with everything else as listed; the store holds
\* the objects so written and the other objects as they were.
C20_OnlyMatchingRewritten ==
    /\ \A w \in DOMAIN pwrites : ObjectPatched(pwrites[w].obj, listed[pwrites[w].idx])
    /\ \A i \in DOMAIN listed :
          IF \E w \in DOMAIN pwrites : pwrites[w].idx = i /\ pwrites[w].err = NilErr
          THEN ObjectPatched(pstore[i], listed[i])
          ELSE pstore[i] = listed[i]

\* An object was written back in which one entry got a pod info's IP and
\* another entry, of a name without pod info, kept its IP.
C20_Witness ==
    \E w \in DOMAIN pwrites :
       /\ pwrites[w].err = NilErr
       /\ \E j \in DOMAIN pwrites[w].obj.subsets :
             \E k, l \in DOMAIN pwrites[w].obj.subsets[j].addresses :
                /\ pwrites[w].obj.subsets[j].addresses[k].ip # OldIP
                /\ pwrites[w].obj.subsets[j].addresses[l].ip = OldIP

\* The listed object i has an address entry whose target name is the name of
\* a supplied pod info.
OwnMatch(i) ==
    \E j \in DOMAIN listed[i].subsets :
       \E k \in DOMAIN listed[i].subsets[j].addresses :
          /\ listed[i].subsets[j].addresses[k].targetRef # <<>>
          /\ listed[i].subsets[j].addresses[k].targetRef[1].name \in SuppliedNames

\* C21: whatever its position in the list, an object is passed to
\* Endpoints.Update only if one of its own address entries matched a supplied
\* pod info; the loop does not go past an object without a matching entry, and
\* when it has come to such an object Update has returned the execution-failed
\* error.
C21_WrittenOnlyIfOwnMatch ==
    /\ \A w \in DOMAIN pwrites : OwnMatch(pwrites[w].idx)
    /\ \A i \in DOMAIN listed :
          (~OwnMatch(i) /\ (pidx > i \/ (pidx = i /\ ppc = "returned"))) =>
              /\ ppc = "returned"
              /\ perr = ErrExecutionFailed
    /\ (ppc = "returned" /\ perr = NilErr) => \A i \in DOMAIN listed : OwnMatch(i)

\* --------------------------------------- the updater as execute calls it

\* One whole call of Update on the stored endpoints e, from pod info i on, n
\* store calls having been made; the store fails its call number fault.at.
RECURSIVE UpdateFrom(_, _, _, _, _)
UpdateFrom(i, e, n, infos, fault) ==
    IF i > Len(infos) THEN [err |-> NilErr, eps |-> e, ncalls |-> n]
    ELSE LET g == StoreGet(IF fault.at = n + 1 THEN fault.err ELSE NilErr)
         IN IF g.err # NilErr THEN [err |-> g.err, eps |-> e, ncalls |-> n + 1]
            ELSE LET c == StoreCreateIn(e, NewEndpoint("guest", infos[i], g.obj),
                                        IF fault.at = n + 2 THEN fault.err ELSE NilErr)
                 IN IF c.err # NilErr /\ ~IsAlreadyExists(c.err)
                    THEN [err |-> c.err, eps |-> c.eps, ncalls |-> n + 2]
                    ELSE UpdateFrom(i + 1, c.eps, n + 2, infos, fault)

\* An Update that fetches the service once before the loop.
UpdateRunGetFirst(e, infos, fault) ==
    LET g == StoreGet(IF fault.at = 1 THEN fault.err ELSE NilErr)
    IN IF g.err # NilErr THEN [err |-> g.err, eps |-> e, ncalls |-> 1]
       ELSE UpdateFrom(1, e, 1, infos, fault)

UpdateRun(e, infos, fault) == UpdateFrom(1, e, 0, infos, fault)

\* The ways the store can fail during one call of Update: not at all, or on
\* one of the calls Update makes.
StoreFaults(infos) ==
    {[at |-> 0, err |-> NilErr]}
    \cup {[at |-> k, err |-> f] : k \in 1..(2 * Len(infos)), f \in FaultErrors}

\* The kind of an error: the store being unavailable is transient, everything
\* else is permanent.
OutcomeOf(err) ==
    IF err = NilErr THEN "ok"
    ELSE IF err.reason = "ServiceUnavailable" THEN "transient"
    ELSE "permanent"

\* A cleanup that passes no facts to Delete.
DeleteFactsNone == <<>>

\* The facts the cleanup passes to Delete.
DeleteFacts == podInfos

\* Retract: the stored endpoints with the address entries of the given facts
\* removed; the object itself stays.
RetractEffect(e, infos) ==
    IF e = <<>> THEN e
    ELSE LET gone == {IPString(infos[i].ip) : i \in DOMAIN infos}
             keep(subset) == [subset EXCEPT
                                !.addresses = SelectSeq(subset.addresses,
                                                        LAMBDA a : a.ip \notin gone)]
         IN << [e[1] EXCEPT !.subsets = [j \in DOMAIN e[1].subsets |-> keep(e[1].subsets[j])]] >>

\* ------------------------------------------------ Command.Execute / execute

\* Execute: f.Validate(), os.Exit(1) when it fails.
Validate ==
    /\ pc = "validate"
    /\ \E valid \in BOOLEAN :
         IF valid
         THEN /\ pc' = "k8sClient"
              /\ UNCHANGED <<exitCode, exitBy, failedPhase>>
         ELSE ExecuteFails("validate")
    /\ UNCHANGED <<cleanup, registered, listener, signals, sigAt, s1, attempts,
                   calls, podInfos, bridgeName, providerKind, eps>>

\* execute: k8s.NewClient(k8sConfig).
NewK8sClient ==
    /\ pc = "k8sClient"
    /\ \E ok \in BOOLEAN :
         IF ok
         THEN /\ pc' = "newProvider"
              /\ UNCHANGED <<exitCode, exitBy, failedPhase>>
         ELSE ExecuteFails("k8sClient")
    /\ UNCHANGED <<cleanup, registered, listener, signals, sigAt, s1, attempts,
                   calls, podInfos, bridgeName, providerKind, eps>>

\* execute: bridge.New(bridgeConfig) with the command's logger and the flag.
NewProvider ==
    /\ pc = "newProvider"
    /\ IF BridgeNew("logger", bridgeName) = "ok"
       THEN /\ pc' = "newUpdater"
            /\ UNCHANGED <<exitCode, exitBy, failedPhase>>
       ELSE ExecuteFails("newProvider")
    /\ UNCHANGED <<cleanup, registered, listener, signals, sigAt, s1, attempts,
                   calls, podInfos, bridgeName, providerKind, eps>>

\* execute: updater.New(updaterConfig) with the client made above.
NewUpdater ==
    /\ pc = "newUpdater"
    /\ IF UpdaterNew("client", "logger") = "ok"
       THEN /\ pc' = "lookup"
            /\ UNCHANGED <<exitCode, exitBy, failedPhase>>
       ELSE ExecuteFails("newUpdater")
    /\ UNCHANGED <<cleanup, registered, listener, signals, sigAt, s1, attempts,
                   calls, podInfos, bridgeName, providerKind, eps>>

\* One attempt of backoff.RetryNotify around newProvider.Lookup().
LookupAttempt ==
    /\ pc = "lookup"
    /\ \E out \in Outcomes, got \in FactSets, stop \in BackoffStops(attempts + 1) :
         /\ out # "ok" => got = <<>>
         /\ calls' = Append(calls, [op |-> "Lookup", out |-> out, facts |-> got,
                                    variant |-> ProviderFor(providerKind)])
         /\ podInfos' = got
         /\ IF out = "ok"
            THEN /\ pc' = "create"
                 /\ attempts' = 0
                 /\ UNCHANGED <<exitCode, exitBy, failedPhase>>
            ELSE IF RetryAgain(out, stop)
            THEN /\ attempts' = attempts + 1
                 /\ UNCHANGED <<pc, exitCode, exitBy, failedPhase>>
            ELSE /\ ExecuteFails("lookup")
                 /\ UNCHANGED attempts
    /\ UNCHANGED <<cleanup, registered, listener, signals, sigAt, s1, bridgeName, providerKind, eps>>

\* backoff.Retry calls the action: newUpdater.Create(ns, service, podInfos)
\* is in flight.
CreateBegin ==
    /\ pc = "create"
    /\ pc' = "creating"
    /\ UNCHANGED <<cleanup, registered, listener, signals, sigAt, s1, attempts,
                   calls, podInfos, exitCode, exitBy, failedPhase, bridgeName,
                   providerKind, eps>>

\* The call of Create returns and backoff.Retry decides: one attempt of the
\* retry loop around newUpdater.Create(ns, service, podInfos).
CreateAttempt ==
    /\ pc = "creating"
    /\ \E fault \in StoreFaults(podInfos), stop \in BackoffStops(attempts + 1) :
         LET r == UpdateRun(eps, podInfos, fault)
             out == OutcomeOf(r.err)
         IN
         /\ calls' = Append(calls, [op |-> "Create", out |-> out, facts |-> podInfos,
                                    variant |-> "updater"])
         /\ eps' = r.eps
         /\ IF out = "ok"
            THEN /\ pc' = "notify"
                 /\ attempts' = 0
                 /\ UNCHANGED <<exitCode, exitBy, failedPhase>>
            ELSE IF RetryAgain(out, stop)
            THEN /\ attempts' = attempts + 1
                 /\ pc' = "create"
                 /\ UNCHANGED <<exitCode, exitBy, failedPhase>>
            ELSE /\ ExecuteFails("create")
                 /\ UNCHANGED attempts
    /\ UNCHANGED <<cleanup, registered, listener, signals, sigAt, s1, podInfos,
                   bridgeName, providerKind>>

\* listener := make(chan os.Signal, 2); signal.Notify(listener, SIGTERM, SIGKILL).
Notify ==
    /\ pc = "notify"
    /\ pc' = "wait1"
    /\ registered' = TRUE
    /\ UNCHANGED <<cleanup, listener, signals, sigAt, s1, attempts, calls,
                   podInfos, exitCode, exitBy, failedPhase, bridgeName, providerKind, eps>>

\* RecvS1 with the receive made non-blocking: the flow goes on to the cleanup
\* without a signal.
RecvS1NoWait ==
    /\ pc = "wait1"
    /\ pc' = "spawn"
    /\ UNCHANGED <<cleanup, registered, listener, signals, sigAt, s1, attempts,
                   calls, podInfos, exitCode, exitBy, failedPhase, bridgeName, providerKind, eps>>

\* s1 := <-listener
RecvS1 ==
    /\ pc = "wait1"
    /\ listener > 0
    /\ listener' = listener - 1
    /\ s1' = "SIGTERM"
    /\ pc' = "spawn"
    /\ UNCHANGED <<cleanup, registered, signals, sigAt, attempts, calls,
                   podInfos, exitCode, exitBy, failedPhase, bridgeName, providerKind, eps>>

\* A cleanup spawned while the Create loop is still running.
SpawnCleanupEarly ==
    /\ pc \in {"create", "creating", "spawn"}
    /\ cleanup = "unspawned"
    /\ pc' = (IF pc = "spawn" THEN "wait2" ELSE pc)
    /\ cleanup' = "running"
    /\ UNCHANGED <<registered, listener, signals, sigAt, s1, attempts, calls,
                   podInfos, exitCode, exitBy, failedPhase, bridgeName, providerKind, eps>>

\* go func() { ... }()
SpawnCleanup ==
    /\ pc = "spawn"
    /\ pc' = "wait2"
    /\ cleanup' = "running"
    /\ UNCHANGED <<registered, listener, signals, sigAt, s1, attempts, calls,
                   podInfos, exitCode, exitBy, failedPhase, bridgeName, providerKind, eps>>

\* Cleanup goroutine: backoff.Retry calls the action, newUpdater.Delete(ns,
\* service, podInfos) is in flight.
DeleteBegin ==
    /\ Running
    /\ cleanup = "running"
    /\ cleanup' = "calling"
    /\ UNCHANGED <<pc, registered, listener, signals, sigAt, s1, attempts, calls,
                   podInfos, exitCode, exitBy, failedPhase, bridgeName,
                   providerKind, eps>>

\* Cleanup goroutine: the call of Delete returns and backoff.Retry decides: one
\* attempt of the retry loop around newUpdater.Delete. A failed call may have
\* removed the entries of the first k facts.
DeleteAttempt ==
    /\ Running
    /\ cleanup = "calling"
    /\ \E out \in Outcomes, stop \in BackoffStops(attempts + 1),
          k \in 0..Len(DeleteFacts) :
         /\ out = "ok" => k = Len(DeleteFacts)
         /\ out # "ok" => k < Len(DeleteFacts) \/ k = 0
         /\ calls' = Append(calls, [op |-> "Delete", out |-> out, facts |-> DeleteFacts,
                                    variant |-> "updater"])
         /\ eps' = RetractEffect(eps, SubSeq(DeleteFacts, 1, k))
         /\ IF out = "ok"
            THEN /\ cleanup' = "succeeded"
                 /\ attempts' = 0
            ELSE IF RetryAgain(out, stop)
            THEN /\ attempts' = attempts + 1
                 /\ cleanup' = "running"
            ELSE /\ cleanup' = "failed"
                 /\ UNCHANGED attempts
    /\ UNCHANGED <<pc, registered, listener, signals, sigAt, s1, podInfos,
                   exitCode, exitBy, failedPhase, bridgeName, providerKind>>

\* Cleanup goroutine after backoff.Retry returned: os.Exit(1) on an error,
\* os.Exit(0) otherwise.
CleanupExit ==
    /\ Running
    /\ cleanup \in {"succeeded", "failed"}
    /\ pc' = "exited"
    /\ exitBy' = "cleanup"
    /\ IF cleanup = "failed"
       THEN exitCode' = CleanupFailureCode /\ failedPhase' = "delete"
       ELSE exitCode' = SuccessCode /\ UNCHANGED failedPhase
    /\ UNCHANGED <<cleanup, registered, listener, signals, sigAt, s1, attempts,
                   calls, podInfos, bridgeName, providerKind, eps>>

\* Main flow after the go statement: <-listener; os.Exit(0).
MainSecondSignal ==
    /\ pc = "wait2"
    /\ listener > 0
    /\ listener' = listener - 1
    /\ pc' = "exited"
    /\ exitCode' = SuccessCode
    /\ exitBy' = "main"
    /\ UNCHANGED <<cleanup, registered, signals, sigAt, s1, attempts, calls,
                   podInfos, failedPhase, bridgeName, providerKind, eps>>

\* The environment delivers SIGTERM. Once signal.Notify has run the signal is
\* put into the listener channel unless the channel is full (the runtime never
\* blocks on it); before that the default disposition ends the process, and a
\* call of Create in flight has got as far as it has.
DeliverSignal ==
    /\ Running
    /\ signals < MaxSignals
    /\ signals' = signals + 1
    /\ sigAt' = sigAt \cup {pc}
    /\ IF registered
       THEN /\ listener' = IF listener < ListenerCap THEN listener + 1 ELSE listener
            /\ UNCHANGED <<pc, exitCode, exitBy>>
       ELSE /\ pc' = "exited"
            /\ exitCode' = KilledStatus
            /\ exitBy' = "signal"
            /\ UNCHANGED listener
    /\ IF ~registered /\ pc = "creating"
       THEN \E fault \in StoreFaults(podInfos) :
                eps' = UpdateRun(eps, podInfos, fault).eps
       ELSE UNCHANGED eps
    /\ UNCHANGED <<cleanup, registered, s1, attempts, calls, podInfos,
                   failedPhase, bridgeName, providerKind>>

\* The store when execute starts: the service may be missing, and the
\* endpoints object may be left over from an earlier run or another writer.
InitStore ==
    /\ svc \in {<<>>, <<[name |-> "guest",
                        ports |-> <<[name |-> "http", protocol |-> "TCP",
                                     port |-> 80, targetPort |-> 8080]>>]>>}
    /\ eps \in {<<>>,
                <<[name |-> "guest",
                   subsets |-> <<[addresses |-> <<[ip |-> IPString(<<10, 0, 0, 9>>)]>>,
                                 ports |-> <<>>]>>]>>}
    /\ facts = <<>>
    /\ upc = "idle"
    /\ ui = 0
    /\ us = <<>>
    /\ uerr = NilErr
    /\ ucalls = <<>>
    /\ faults = 0
    /\ run = 0
    /\ first = <<>>

Init == InitLife /\ IdleIncr /\ InitStore /\ IdleBridge /\ IdlePatch

Next ==
    \/ Validate /\ UNCHANGED <<incrVars, updRest, bridgeVars, patchVars>>
    \/ NewK8sClient /\ UNCHANGED <<incrVars, updRest, bridgeVars, patchVars>>
    \/ NewProvider /\ UNCHANGED <<incrVars, updRest, bridgeVars, patchVars>>
    \/ NewUpdater /\ UNCHANGED <<incrVars, updRest, bridgeVars, patchVars>>
    \/ LookupAttempt /\ UNCHANGED <<incrVars, updRest, bridgeVars, patchVars>>
    \/ CreateBegin /\ UNCHANGED <<incrVars, updRest, bridgeVars, patchVars>>
    \/ CreateAttempt /\ UNCHANGED <<incrVars, updRest, bridgeVars, patchVars>>
    \/ Notify /\ UNCHANGED <<incrVars, updRest, bridgeVars, patchVars>>
    \/ RecvS1 /\ UNCHANGED <<incrVars, updRest, bridgeVars, patchVars>>
    \/ SpawnCleanup /\ UNCHANGED <<incrVars, updRest, bridgeVars, patchVars>>
    \/ DeleteBegin /\ UNCHANGED <<incrVars, updRest, bridgeVars, patchVars>>
    \/ DeleteAttempt /\ UNCHANGED <<incrVars, updRest, bridgeVars, patchVars>>
    \/ CleanupExit /\ UNCHANGED <<incrVars, updRest, bridgeVars, patchVars>>
    \/ MainSecondSignal /\ UNCHANGED <<incrVars, updRest, bridgeVars, patchVars>>
    \/ DeliverSignal /\ UNCHANGED <<incrVars, updRest, bridgeVars, patchVars>>

Spec == Init /\ [][Next]_vars

\* ------------------------------------------------------- lifecycle phases

\* The controller's phase at each position of the main flow.
Phase ==
    CASE pc \in {"validate", "k8sClient", "newProvider", "newUpdater", "lookup"}
           -> "Resolving"
      [] pc \in {"create", "creating"} -> "Applying"
      [] pc \in {"notify", "wait1"} -> "Waiting"
      [] pc \in {"spawn", "wait2"} -> "Retracting"
      [] pc = "exited" -> "Done"

Rank(ph) ==
    CASE ph = "Resolving" -> 0
      [] ph = "Applying" -> 1
      [] ph = "Waiting" -> 2
      [] ph = "Retracting" -> 3
      [] ph = "Done" -> 4

\* Exit code the process ends with when the retry loop of phase q fails:
\* Lookup and Create fail through execute's return, Delete in the goroutine.
FailureCode(q) == IF q = "delete" THEN CleanupFailureCode ELSE ExecuteFailureCode

Succeeded(op) == {i \in DOMAIN calls : calls[i].op = op /\ calls[i].out = "ok"}

CallOrder ==
    /\ \A i \in DOMAIN calls :
         calls[i].op = "Create" => \E j \in Succeeded("Lookup") : j < i
    /\ \A i \in DOMAIN calls :
         calls[i].op = "Delete" =>
             /\ s1 # "none"
             /\ \E j \in Succeeded("Create") : j < i
    /\ Cardinality(Succeeded("Create")) <= 1
    /\ Cardinality(Succeeded("Delete")) <= 1

\* C1: the phases occur only in the order Resolving, Applying, Waiting,
\* Retracting, Done and none is re-entered; Create is never called before a
\* Lookup succeeded, Delete never before Create succeeded and a signal was
\* received, and at most one Create and one Delete succeed per run.
C1_PhaseOrder == [](CallOrder) /\ [][Rank(Phase') >= Rank(Phase)]_vars

\* C1 witness: a run went through all five phases, with a retried Lookup.
C1_Witness ==
    /\ pc = "exited"
    /\ exitBy = "cleanup"
    /\ Succeeded("Delete") # {}
    /\ \E i \in DOMAIN calls : calls[i].op = "Lookup" /\ calls[i].out # "ok"

\* C2: once a termination signal has been received in Waiting, the process
\* does not exit before the retry loop around Delete has returned (success or
\* retries exhausted), whatever further signals arrive.
C2_RetractionCompletes ==
    (pc = "exited" /\ s1 # "none") => cleanup \in {"succeeded", "failed"}

\* C3: signals after the first one are coalesced: the process still ends by the
\* cleanup goroutine's exit, after the full sequence of Delete calls, with the
\* status that sequence produced.
C3_SignalsCoalesced ==
    (pc = "exited" /\ s1 # "none" /\ signals > 1) =>
        /\ exitBy = "cleanup"
        /\ exitCode = IF cleanup = "succeeded" THEN SuccessCode
                      ELSE CleanupFailureCode

\* C4: a fatal failure of Lookup, Create or Delete ends the process with a
\* non-zero exit code that differs from the code of the other two phases.
C4_DistinctExitCodes ==
    (pc = "exited" /\ failedPhase \in {"lookup", "create", "delete"}) =>
        /\ exitCode # SuccessCode
        /\ \A q \in {"lookup", "create", "delete"} \ {failedPhase} :
             exitCode # FailureCode(q)

\* C5: an attempt that fails with a permanent error is the last call made: it
\* is not retried and the sequence aborts at once.
C5_PermanentNotRetried ==
    \A i \in DOMAIN calls :
        calls[i].out = "permanent" =>
            /\ i = Len(calls)
            /\ pc = "exited" \/ cleanup = "failed"

\* C6: a signal delivered during the Lookup or Create retry loop does not end
\* the run: unless a retry loop fails, the run receives the signal in Waiting
\* after a successful Create and only then retracts.
C6_EarlySignalDeferred ==
    (pc = "exited" /\ failedPhase = "none" /\ sigAt \cap {"lookup", "create", "creating"} # {}) =>
        /\ s1 # "none"
        /\ Succeeded("Create") # {}

\* The provider kinds that name a provider variant.
KnownKinds == {"env", "bridge", "etcd"}

\* C11: every Lookup is made on the provider variant the provider kind flag
\* names, and a kind that names no variant ends execute without any Lookup
\* and without any call of the updater.
C11_SelectedProvider ==
    /\ \A i \in DOMAIN calls :
         calls[i].op = "Lookup" => calls[i].variant = providerKind
    /\ providerKind \notin KnownKinds => calls = <<>>

\* ------------------------------------------------- failure before Waiting

\* The retry loop of Lookup or of Create has failed.
StartupFailed == failedPhase \in {"lookup", "create"}

\* C12: when the retry loop of Lookup or of Create fails the process is exited
\* with a non-zero status, the signal wait was never entered (no handler
\* registered, no signal received, no cleanup spawned), Delete was never called,
\* the failed call is the last call, and from then on no call is made and the
\* stored endpoints stay as they are.
C12_StartupFailureEndsRun ==
    /\ [](StartupFailed =>
            /\ pc = "exited"
            /\ exitCode = ExecuteFailureCode
            /\ exitCode # SuccessCode
            /\ ~registered
            /\ s1 = "none"
            /\ cleanup = "unspawned"
            /\ calls # <<>>
            /\ calls[Len(calls)].op = (IF failedPhase = "lookup" THEN "Lookup" ELSE "Create")
            /\ calls[Len(calls)].out # "ok"
            /\ \A i \in DOMAIN calls : calls[i].op # "Delete")
    /\ [][StartupFailed => calls' = calls /\ eps' = eps]_vars

\* Create failed for good after it had written the first fact's entry.
C12_Witness ==
    /\ failedPhase = "create"
    /\ pc = "exited"
    /\ eps # <<>>
    /\ eps[1].subsets[1].addresses[1].ip = IPString(PodInfo(1).ip)

\* ------------------------------------------------- the ports of the record

\* This run of Update created the record.
Created == \E i \in DOMAIN ucalls : ucalls[i].call = "Create" /\ ucalls[i].err = NilErr

\* An endpoint port and a declared service port say the same: name, port
\* number and protocol.
SamePort(ep, sp) == ep.name = sp.name /\ ep.port = sp.port /\ ep.protocol = sp.protocol

\* C13: the record Update created carries the service's declared ports: as
\* many, in the same order, each equal to the declared port.
C13_PortsVerbatim ==
    Created =>
        LET ports == eps[1].subsets[1].ports
            declared == svc[1].ports
        IN /\ Len(ports) = Len(declared)
           /\ \A i \in DOMAIN ports : SamePort(ports[i], declared[i])

\* ------------------------------------------------- configuration errors

\* Execute ended on a configuration error: the flags did not validate or
\* bridge.New rejected its configuration.
ConfigFailed == failedPhase \in {"validate", "newProvider"}

\* C14: a configuration error ends the process with a non-zero status after a
\* single attempt, without a Lookup and without a store operation: so it is
\* when the flags do not validate, when the bridge name is empty, and bridge.New
\* rejects a configuration without a logger.
C14_ConfigErrorsFatal ==
    /\ [](ConfigFailed =>
            /\ pc = "exited"
            /\ exitCode = ExecuteFailureCode
            /\ exitCode # SuccessCode
            /\ attempts = 0
            /\ calls = <<>>)
    /\ [](bridgeName = "" =>
            /\ calls = <<>>
            /\ pc \in {"validate", "k8sClient", "newProvider", "exited"}
            /\ pc = "exited" => exitCode # SuccessCode)
    /\ [](\A n \in {"", "br0"} : BridgeNew("nil", n) = "invalidConfig")
    /\ [][(calls = <<>> /\ calls' = <<>>) => eps' = eps]_vars

\* bridge.New rejected the empty bridge name and Execute exited.
C14_Witness ==
    /\ bridgeName = ""
    /\ failedPhase = "newProvider"
    /\ pc = "exited"

\* ------------------------------------------------- one fact set per run

\* Applying has begun: the Lookup loop is behind.
ApplyingBegan ==
    pc \in {"create", "creating", "notify", "wait1", "spawn", "wait2"}
    \/ \E i \in DOMAIN calls : calls[i].op = "Create"

\* C15: every Delete is passed the fact set the successful Create was passed,
\* no Lookup is made once Applying has begun, and the fact set is not modified
\* from then on.
C15_SameFactsRetracted ==
    /\ [](\A i \in DOMAIN calls :
            calls[i].op = "Delete" =>
               \E j \in 1..(i - 1) :
                  /\ calls[j].op = "Create"
                  /\ calls[j].out = "ok"
                  /\ calls[j].facts = calls[i].facts
                  /\ \A k \in DOMAIN calls :
                        (calls[k].op = "Create" /\ calls[k].out = "ok") => k = j)
    /\ [](\A i \in DOMAIN calls, j \in DOMAIN calls :
            (calls[i].op = "Create" /\ i < j) => calls[j].op # "Lookup")
    /\ [][ApplyingBegan =>
            /\ podInfos' = podInfos
            /\ calls' # calls => calls'[Len(calls')].op # "Lookup"]_vars

\* Delete was called with two facts.
C15_Witness ==
    \E i \in DOMAIN calls : calls[i].op = "Delete" /\ Len(calls[i].facts) = 2

\* ------------------------------------------------- one updater call at a time

\* The calls of the updater in flight: the Create the main sequence is in and
\* the Delete the cleanup is in.
InFlight ==
    (IF pc = "creating" THEN 1 ELSE 0) + (IF cleanup = "calling" THEN 1 ELSE 0)

\* C16: at no time are two calls of the updater in flight.
C16_OneCallInFlight == InFlight <= 1

\* A Delete is in flight after a Create was.
C16_Witness ==
    /\ cleanup = "calling"
    /\ \E i \in DOMAIN calls : calls[i].op = "Create"

\* ------------------------------------------------- fair scheduling

\* The steps of the main sequence of Execute.
MainStep ==
    /\ \/ Validate
       \/ NewK8sClient
       \/ NewProvider
       \/ NewUpdater
       \/ LookupAttempt
       \/ CreateBegin
       \/ CreateAttempt
       \/ Notify
       \/ RecvS1
       \/ SpawnCleanup
       \/ MainSecondSignal
    /\ UNCHANGED <<incrVars, updRest, bridgeVars, patchVars>>

\* The steps of the cleanup goroutine.
CleanupStep ==
    /\ \/ DeleteBegin
       \/ DeleteAttempt
       \/ CleanupExit
    /\ UNCHANGED <<incrVars, updRest, bridgeVars, patchVars>>

\* Execute under the scheduler of the runtime: the main sequence and the
\* cleanup goroutine each go on when they can; signals come when they come.
\* Execute started with the bridge provider selected and a bridge name given,
\* on any of the stores.
InitFair == IdleLife /\ IdleIncr /\ InitStore /\ IdleBridge /\ IdlePatch

SpecFair == InitFair /\ [][Next]_vars /\ WF_vars(MainStep) /\ WF_vars(CleanupStep)

\* C17: under fair scheduling a signal that arrives in Waiting leads to the
\* process leaving Waiting and exiting; it exits with status zero when the
\* Delete loop succeeded and with a non-zero status when the Delete loop
\* exhausted its retries.
C17_SignalEndsRun ==
    /\ (pc = "wait1" /\ listener > 0) ~> (pc = "exited")
    /\ []((pc = "exited" /\ s1 # "none" /\ cleanup = "succeeded")
             => exitCode = SuccessCode)
    /\ []((pc = "exited" /\ s1 # "none" /\ cleanup = "failed")
             => exitCode # SuccessCode)

\* ------------------------------------------------- no facts

\* C19: a Lookup that succeeds with no facts is followed by a Create that makes
\* no store call and succeeds, the process then waits for a signal (unless a
\* signal ended it before the handler was registered), and a signal that
\* arrives while it waits leads on to Retracting and to the exit.
C19_EmptyFactsProceed ==
    /\ [](\A i \in DOMAIN calls :
            (calls[i].op = "Create" /\ calls[i].facts = <<>>) => calls[i].out = "ok")
    /\ []((pc = "creating" /\ podInfos = <<>>) =>
            \A fault \in StoreFaults(podInfos) :
               /\ UpdateRun(eps, podInfos, fault).ncalls = 0
               /\ UpdateRun(eps, podInfos, fault).err = NilErr)
    /\ [][(pc = "creating" /\ podInfos = <<>> /\ pc' # pc) =>
             \/ pc' = "notify" /\ eps' = eps
             \/ exitBy' = "signal"]_vars
    /\ (pc = "create" /\ podInfos = <<>>) ~> (Phase = "Waiting" \/ exitBy = "signal")
    /\ (Phase = "Waiting" /\ podInfos = <<>> /\ listener > 0) ~> (Phase = "Retracting")
    /\ (Phase = "Waiting" /\ podInfos = <<>> /\ listener > 0) ~> (pc = "exited")

\* The process has exited after a signal received in Waiting, the Create with
\* no facts having succeeded and the cleanup having been spawned.
C19_Witness ==
    /\ pc = "exited"
    /\ s1 # "none"
    /\ cleanup # "unspawned"
    /\ podInfos = <<>>
    /\ \E i \in DOMAIN calls :
          calls[i].op = "Create" /\ calls[i].facts = <<>> /\ calls[i].out = "ok"

====
